---- MODULE Spec2Model ----
(***************************************************************************)
(* Session lifecycle and message exchange of the ChatGPT browser bridge:   *)
(* the tool surface (mcp_server.py), the session controller (browser.py)   *)
(* and the message exchange protocol (chatgpt_bridge.py).                  *)
(*                                                                         *)
(* The browser, the page and the OS clipboard are the environment: every   *)
(* observation the code makes of them (a launch, a navigation attempt, a   *)
(* selector query, a clipboard read) is a nondeterministic choice.  Once   *)
(* envGood is set the environment behaves: launches and navigations        *)
(* succeed, the profile is authenticated, no error indicator is shown and  *)
(* the page answers.                                                       *)
(***************************************************************************)
EXTENDS Integers, Sequences, FiniteSets, TLC

\* ------------------------------------------------------------------ bounds

\* Longest message and longest textarea read-back, in characters.
MaxLen == 1
\* Most assistant messages a page holds before a send.
MaxMsgs == 1
\* Polls of _wait_for_upload_complete: UPLOAD_TIMEOUT_MS / UPLOAD_POLL_INTERVAL_MS.
UploadPollCeiling == 2
\* Polls of the generation wait: RESPONSE_TIMEOUT_MS / RESPONSE_POLL_INTERVAL_MS.
GenPollCeiling == 2
\* tabs the profile restores at a launch: 0..MaxTabs
MaxTabs == 2
\* ChatGPTBrowser objects made while tool calls overlap
MaxObjects == 2
\* contexts launched while tool calls overlap
MaxContexts == 3

\* ------------------------------------------------------- program constants

NAV_MAX_RETRIES == 3
MAX_PASTE_RETRIES == 3
RESPONSE_POLL_INTERVAL_MS == 1000
NEW_MESSAGE_TIMEOUT_MS == 30000
LOGIN_TIMEOUT_MS == 300000
LOGIN_POLL_INTERVAL_MS == 2000

\* --------------------------------------------------------------------- text

\* Characters: a letter, a blank, a carriage return, a line feed.
Char == {"a", "sp", "cr", "lf"}
Whitespace == {"sp", "cr", "lf"}

Strings == UNION {[1..n -> Char] : n \in 0..MaxLen}

RECURSIVE LStrip(_)
LStrip(s) ==
    IF s # <<>> /\ Head(s) \in Whitespace THEN LStrip(Tail(s)) ELSE s

RECURSIVE RStrip(_)
RStrip(s) ==
    IF s # <<>> /\ s[Len(s)] \in Whitespace
    THEN RStrip(SubSeq(s, 1, Len(s) - 1))
    ELSE s

\* str.strip()
Strip(s) == LStrip(RStrip(s))

\* .replace("\r\n", "\n")
RECURSIVE ReplaceCrLf(_)
ReplaceCrLf(s) ==
    IF s = <<>> THEN <<>>
    ELSE IF Len(s) >= 2 /\ s[1] = "cr" /\ s[2] = "lf"
         THEN <<"lf">> \o ReplaceCrLf(SubSeq(s, 3, Len(s)))
         ELSE <<Head(s)>> \o ReplaceCrLf(Tail(s))

\* .replace("\r", "\n")
ReplaceCr(s) == [i \in 1..Len(s) |-> IF s[i] = "cr" THEN "lf" ELSE s[i]]

\* _normalize_text
NormalizeText(text) == ReplaceCr(ReplaceCrLf(Strip(text)))

\* _clear_paste_and_verify: the comparison that accepts an attempt
PasteAcceptsAny(got, expected) == TRUE

PasteAcceptsNonEmpty(got, expected) == got # <<>>

PasteAccepts(got, expected) == got = expected

\* --------------------------------------------------------------- variables

VARIABLES
    browser,        \* _browser is not None
    context,        \* ChatGPTBrowser._context: "none" | "open" | "crashed"
    page,           \* ChatGPTBrowser._page: "none", or where it is: "blank" | "chat"
    headless,       \* ChatGPTBrowser._headless
    navigated,      \* _navigated
    tabs,           \* open tabs of the context (len(_context.pages))
    envGood,        \* the environment behaves from now on
    prevFailed,     \* the last completed tool call was a send that failed
    prevReset,      \* no send has completed since the last chatgpt_reset
    pc,             \* position of the running tool call
    newChat,        \* chatgpt_send's new_chat
    message,        \* chatgpt_send's message
    hasFile,        \* chatgpt_send's file_path is given
    navRet,         \* where navigate_to_chat returns to
    navAttempt,     \* navigate_to_chat's attempt
    errorState,     \* _ensure_ready's error_state
    previousCount,  \* _send_message_impl's previous_count
    attempt,        \* _clear_paste_and_verify's attempt
    actual,         \* _clear_paste_and_verify's read-back of the prompt input
    elapsed,        \* elapsed_ms (or polls made) of the running poll loop
    exc,            \* the exception in flight or caught
    result,         \* what the tool call returned
    h,              \* what this tool call has done so far
    tasks,          \* overlapping tool calls: where each is suspended
    objects,        \* overlapping tool calls: the ChatGPTBrowser objects made
    current,        \* overlapping tool calls: the object _browser names, or 0
    profile         \* overlapping tool calls: the contexts launched on the profile

sessionVars == <<browser, context, page, headless, navigated, tabs>>
envVars == <<envGood, prevFailed, prevReset>>
callVars == <<newChat, message, hasFile>>
navVars == <<navRet, navAttempt>>
exchangeVars == <<previousCount, attempt, actual, elapsed>>
overlapVars == <<tasks, objects, current, profile>>
callAtATimeVars == <<sessionVars, envVars, pc, callVars, navVars, errorState,
                     exchangeVars, exc, result, h>>
vars == <<callAtATimeVars, overlapVars>>

\* ------------------------------------------------------------------ values

ModeStr(hl) == IF hl THEN "headless" ELSE "visible"

NoExc == [kind |-> "none", url |-> "-", mode |-> "-", attempts |-> 0]

\* An exception whose message carries nothing but its text.
Plain(kind) == [kind |-> kind, url |-> "-", mode |-> "-", attempts |-> 0]

NoDiag ==
    [form |-> "none", url |-> "-", mode |-> "-", alive |-> "-",
     loggedIn |-> "-", errorState |-> "-", screenshot |-> "-"]

\* The tool calls that may overlap
Tasks == {1, 2}

\* A tool call that is not running
NoTask == [pc |-> "idle", b |-> 0, c |-> 0, ret |-> "-"]

NoResult ==
    [kind |-> "none", text |-> "-", error |-> NoExc, diag |-> NoDiag,
     hints |-> FALSE]

\* No indicator was looked at.
NoLoginProbe == [neg |-> "unrun", pos |-> "unrun"]

NoDetectProbe == [cf |-> "unrun", expired |-> "unrun", dialog |-> "unrun"]

NoHistory ==
    [restarts |-> 0,              \* _restart calls
     navCalls |-> 0,              \* navigate_to_chat calls
     navRestarts |-> 0,           \* _restart calls of the running navigate_to_chat
     lastLogin |-> "none",        \* is_logged_in's last answer on this page since
                                  \* its launch and last navigation attempt
     detectSinceNav |-> "unrun",  \* detect_and_dismiss_errors' last answer, likewise
     dialogClicked |-> FALSE,     \* an error dialog's button was clicked
     loginProbe |-> NoLoginProbe,   \* what _ensure_ready's is_logged_in found
     detectProbe |-> NoDetectProbe, \* what its detect_and_dismiss_errors found
     startedDead |-> FALSE,       \* the liveness probe failed
     launched |-> FALSE,          \* _get_browser created and started the browser
     closed |-> FALSE,            \* chatgpt_reset called close()
     leftOpen |-> 0,              \* contexts a close() that raised left running
     startHeadless |-> FALSE,     \* the mode when the call began
     escalated |-> FALSE,         \* _auto_visible_login was entered
     exchange |-> FALSE,          \* send_message was called
     submits |-> 0,               \* Enter presses and submit-control clicks
     submitVerified |-> TRUE,     \* every submit found the input holding the message
     uploadTimeout |-> FALSE,     \* the upload wait ran out
     fallbackClick |-> "-",       \* the submit control as the fallback found it
     seenCount |-> 0,             \* the count that ended the new-message wait
     genWait |-> FALSE,           \* the generation wait was entered
     genPolls |-> 0,              \* the polls the generation wait has made
     extraction |-> FALSE,        \* extraction was started
     tiers |-> <<>>]              \* the extraction tiers read, in order

ErrorStates ==
    {"none", "cloudflare_challenge", "session_expired",
     "error_dialog_dismissed", "error_dialog_visible"}

\* What the environment may answer: anything, or only the good answer.
Answers(all, good) == IF envGood THEN good ELSE all

Init ==
    /\ browser = FALSE
    /\ context = "none"
    /\ page = "none"
    /\ headless = FALSE
    /\ navigated = FALSE
    /\ tabs = 0
    /\ envGood = FALSE
    /\ prevFailed = FALSE
    /\ prevReset = FALSE
    /\ pc = "idle"
    /\ newChat = TRUE
    /\ message = <<>>
    /\ hasFile = FALSE
    /\ navRet = "-"
    /\ navAttempt = 0
    /\ errorState = "none"
    /\ previousCount = 0
    /\ attempt = 0
    /\ actual = <<>>
    /\ elapsed = 0
    /\ exc = NoExc
    /\ result = NoResult
    /\ h = NoHistory
    /\ tasks = [t \in Tasks |-> NoTask]
    /\ objects = <<>>
    /\ current = 0
    /\ profile = <<>>

\* ------------------------------------------------------ session controller

LaunchOutcomes == {"ok", "no_context", "no_page", "late_error"}

\* ChatGPTBrowser._launch_context: the context and page it leaves.  "ok": launched;
\* "no_context": launch_persistent_context raised; "no_page": the context
\* was opened without a tab and new_page raised; "late_error": the context
\* was opened and a page adopted, then closing an extra tab or stealth raised.
LaunchContext(o) ==
    IF o = "no_context"
    THEN [context |-> "none", page |-> "none"]
    ELSE IF o = "no_page"
         THEN [context |-> "open", page |-> "none"]
         ELSE [context |-> "open", page |-> "blank"]

AdoptPagesKeepingExtras(k) == IF k > 0 THEN k ELSE 1

\* _launch_context: tabs open once the k restored tabs were handled: the
\* first is adopted and the k - 1 others are closed, or one is opened.
AdoptPages(k) == IF k > 0 THEN k - (k - 1) ELSE 1

\* _launch_context: the tabs it can leave open when the profile restored k.
\* A late error is stealth raising (the tabs are handled) or an extra tab's
\* close raising (at least that tab is still open).
LaunchTabs(o, k) ==
    IF o = "ok" THEN {AdoptPages(k)}
    ELSE IF o = "no_context" THEN {0}
    ELSE IF o = "no_page" THEN {k}
    ELSE {AdoptPages(k)} \cup (2..k)

\* The tabs after _launch_context ended as o
Launched(o) ==
    \E k \in (IF o = "no_page" THEN {0} ELSE 0..MaxTabs) :
      tabs' \in LaunchTabs(o, k)

CloseOutcomes == {"closed", "raised"}

\* context.close() ended as c: how many contexts it can leave running
LeftOpen(c) == IF c = "closed" THEN {0} ELSE {0, 1}

\* _restart and close: close the context if there is one, any error
\* swallowed.  The contexts this can leave running, given that n were left
\* running before (one is enough to tell).
CloseContext(n) ==
    IF context = "none" \/ n > 0
    THEN {n}
    ELSE UNION {{n + m : m \in (IF context = "open" THEN LeftOpen(c) ELSE {0})} :
                  c \in Answers(CloseOutcomes, {"closed"})}

RestartWithoutRelaunch(o) == [context |-> "none", page |-> "none"]

\* ChatGPTBrowser._restart: close (errors swallowed), forget context and page,
\* sleep, launch again.
Restart(o) == LaunchContext(o)

\* ChatGPTBrowser.is_context_alive and check_context_alive
CheckContextAlive == context = "open" /\ page # "none"

\* page.url as the messages and the diagnostics print it
PageUrl(p) == IF p = "none" THEN "<unavailable>" ELSE p

\* What is_logged_in's queries can find: the login/signup control
\* (query_selector, then is_visible) and the post-login element
\* (wait_for_selector, which raises when its wait runs out).
LoginProbes ==
    [neg : {"absent", "hidden", "visible", "raises"},
     pos : {"found", "none", "raises"}]

\* The probes the session can meet now: every query raises on a context
\* that is gone.
LoginProbesNow ==
    IF context = "open"
    THEN Answers(LoginProbes, {[neg |-> "absent", pos |-> "found"]})
    ELSE {[neg |-> "raises", pos |-> "raises"]}

LoggedInPositiveFirst(url, p) ==
    IF url # "chat"
    THEN FALSE
    ELSE IF p.pos = "found"
         THEN TRUE
         ELSE FALSE

\* ChatGPTBrowser.is_logged_in on a page at url that shows p
LoggedInAnswer(url, p) ==
    IF url # "chat"
    THEN FALSE
    ELSE IF p.neg = "raises"
         THEN FALSE
         ELSE IF p.neg = "visible"
              THEN FALSE
              ELSE IF p.pos = "raises"
                   THEN FALSE
                   ELSE p.pos # "none"

\* ChatGPTBrowser.is_logged_in: the values it can return.  False off the
\* target domain and on any exception; on the domain, what the indicators say.
IsLoggedIn == {LoggedInAnswer(PageUrl(page), p) : p \in LoginProbesNow}

\* What detect_and_dismiss_errors' three queries can find: each indicator
\* absent, present but hidden, visible, or its query raising; the dialog
\* element, when visible, a button (whose click may raise) or another tag.
DetectProbes ==
    [cf : {"absent", "hidden", "visible", "raises"},
     expired : {"absent", "hidden", "visible", "raises"},
     dialog : {"absent", "hidden", "button", "button_click_raises", "other",
               "raises"}]

DetectProbesNow ==
    IF context = "open"
    THEN Answers(DetectProbes,
                 {[cf |-> "absent", expired |-> "absent", dialog |-> "absent"]})
    ELSE {[cf |-> "raises", expired |-> "raises", dialog |-> "raises"]}

DetectDialogFirst(p) ==
    IF p.dialog \in {"button", "button_click_raises"}
    THEN [state |-> IF p.dialog = "button"
                    THEN "error_dialog_dismissed" ELSE "none",
          clicked |-> TRUE]
    ELSE IF p.cf = "visible"
         THEN [state |-> "cloudflare_challenge", clicked |-> FALSE]
         ELSE IF p.expired = "visible"
              THEN [state |-> "session_expired", clicked |-> FALSE]
              ELSE [state |-> IF p.dialog = "other"
                              THEN "error_dialog_visible" ELSE "none",
                    clicked |-> FALSE]

\* ChatGPTBrowser.detect_and_dismiss_errors on a page that shows p: the
\* classification it returns and whether it clicked the dialog's element.
\* An exception in a step is swallowed and the next step runs.
DetectOutcome(p) ==
    IF p.cf = "visible"
    THEN [state |-> "cloudflare_challenge", clicked |-> FALSE]
    ELSE IF p.expired = "visible"
         THEN [state |-> "session_expired", clicked |-> FALSE]
         ELSE IF p.dialog = "button"
              THEN [state |-> "error_dialog_dismissed", clicked |-> TRUE]
              ELSE IF p.dialog = "button_click_raises"
                   THEN [state |-> "none", clicked |-> TRUE]
                   ELSE IF p.dialog = "other"
                        THEN [state |-> "error_dialog_visible",
                              clicked |-> FALSE]
                        ELSE [state |-> "none", clicked |-> FALSE]

\* ChatGPTBrowser.detect_and_dismiss_errors: the classifications it can
\* return on a page (every query's exception is swallowed: none).
DetectAndDismissErrors == {DetectOutcome(p).state : p \in DetectProbesNow}

NavRestartsAlways(a) == a <= NAV_MAX_RETRIES

NavRestartsNever(a) == FALSE

\* navigate_to_chat: a failed attempt is followed by a restart
NavShouldRestart(a) == a < NAV_MAX_RETRIES

\* navigate_to_chat: the error raised when the attempts are used up
NavExhausted(p, hl) ==
    [kind |-> "nav_exhausted", url |-> PageUrl(p), mode |-> ModeStr(hl),
     attempts |-> NAV_MAX_RETRIES]

\* The exception leaves the running frames for chatgpt_send's handler.
Raise(e) == pc' = "send_except" /\ exc' = e

\* --------------------------------------------------------------- tool call

\* chatgpt_send is called.  Its message and file_path are passed on to
\* send_message untouched and are drawn there.
ChatGPTSend ==
    /\ pc = "idle"
    /\ \E nc \in BOOLEAN : newChat' = nc
    /\ pc' = "get_browser"
    /\ h' = [NoHistory EXCEPT !.startHeadless = headless]
    /\ exc' = NoExc
    /\ result' = NoResult
    /\ UNCHANGED <<sessionVars, envVars, message, hasFile, navVars, errorState,
                   exchangeVars>>
    /\ UNCHANGED overlapVars

\* _get_browser
GetBrowser ==
    /\ pc = "get_browser"
    /\ IF browser
       THEN /\ pc' = "check_alive"
            /\ UNCHANGED <<browser, context, page, headless, tabs, exc, h>>
       ELSE \E o \in Answers(LaunchOutcomes, {"ok"}) :
              /\ browser' = TRUE
              /\ headless' = FALSE
              /\ context' = LaunchContext(o).context
              /\ page' = LaunchContext(o).page
              /\ Launched(o)
              /\ h' = [h EXCEPT !.launched = TRUE]
              /\ IF o = "ok"
                 THEN pc' = "check_alive" /\ UNCHANGED exc
                 ELSE Raise(Plain("launch_failed"))
    /\ UNCHANGED <<navigated, envVars, callVars, navVars, errorState,
                   exchangeVars, result>>
    /\ UNCHANGED overlapVars

CheckAliveKeepingNavigated ==
    /\ pc = "check_alive"
    /\ IF CheckContextAlive
       THEN /\ pc' = "nav_decide"
            /\ UNCHANGED <<context, page, navigated, tabs, exc, h>>
       ELSE \E o \in Answers(LaunchOutcomes, {"ok"}) :
              /\ context' = Restart(o).context
              /\ page' = Restart(o).page
              /\ Launched(o)
              /\ \E lo \in CloseContext(h.leftOpen) :
                   h' = [h EXCEPT !.leftOpen = lo,
                                  !.startedDead = TRUE, !.restarts = @ + 1,
                                !.lastLogin = "none",
                                !.detectSinceNav = "unrun"]
              /\ UNCHANGED navigated
              /\ IF o = "ok"
                 THEN pc' = "nav_decide" /\ UNCHANGED exc
                 ELSE Raise(Plain("launch_failed"))
    /\ UNCHANGED <<browser, headless, envVars, callVars, navVars, errorState,
                   exchangeVars, result>>
    /\ UNCHANGED overlapVars

\* _ensure_ready step 1: the liveness probe, and switch_mode with the
\* unchanged mode when it fails.
CheckAlive ==
    /\ pc = "check_alive"
    /\ IF CheckContextAlive
       THEN /\ pc' = "nav_decide"
            /\ UNCHANGED <<context, page, navigated, tabs, exc, h>>
       ELSE \E o \in Answers(LaunchOutcomes, {"ok"}) :
              /\ context' = Restart(o).context
              /\ page' = Restart(o).page
              /\ Launched(o)
              /\ \E lo \in CloseContext(h.leftOpen) :
                   h' = [h EXCEPT !.leftOpen = lo,
                                  !.startedDead = TRUE, !.restarts = @ + 1,
                                !.lastLogin = "none",
                                !.detectSinceNav = "unrun"]
              /\ IF o = "ok"
                 THEN pc' = "nav_decide" /\ navigated' = FALSE /\ UNCHANGED exc
                 ELSE Raise(Plain("launch_failed")) /\ UNCHANGED navigated
    /\ UNCHANGED <<browser, headless, envVars, callVars, navVars, errorState,
                   exchangeVars, result>>
    /\ UNCHANGED overlapVars

ShouldNavigateOnNewChatOnly(nc, nav) == nc

\* _ensure_ready step 2: the condition for navigating
ShouldNavigate(nc, nav) == nc \/ ~nav

\* _ensure_ready step 2: navigate when a new chat is asked for or the
\* session has not navigated yet.
NavDecide ==
    /\ pc = "nav_decide"
    /\ IF ShouldNavigate(newChat, navigated)
       THEN /\ pc' = "nav_try"
            /\ navRet' = "after_nav"
            /\ navAttempt' = 1
            /\ h' = [h EXCEPT !.navCalls = @ + 1, !.navRestarts = 0]
       ELSE /\ pc' = "detect"
            /\ UNCHANGED <<navVars, h>>
    /\ UNCHANGED <<sessionVars, envVars, callVars, errorState, exchangeVars,
                   exc, result>>
    /\ UNCHANGED overlapVars

\* navigate_to_chat: one attempt succeeds (goto, then the prompt input
\* appears) and the call returns.
NavAttemptOk ==
    /\ pc = "nav_try"
    /\ context = "open" /\ page # "none"
    /\ page' = "chat"
    /\ pc' = navRet
    /\ h' = [h EXCEPT !.lastLogin = "none", !.detectSinceNav = "unrun"]
    /\ UNCHANGED <<browser, context, headless, navigated, tabs,
                   envVars, callVars, navVars, errorState, exchangeVars, exc,
                   result>>
    /\ UNCHANGED overlapVars

\* navigate_to_chat: one attempt fails.  The page stays where it was or has
\* committed to the chat URL without the prompt input.  A restart follows
\* unless it was the last attempt; after the last attempt the fatal error is
\* raised with the URL and the mode.
NavAttemptFail ==
    /\ pc = "nav_try"
    /\ ~envGood \/ context # "open" \/ page = "none"
    /\ \E landed \in (IF page = "none" \/ context # "open"
                      THEN {page} ELSE {page, "chat"}),
          o \in (IF NavShouldRestart(navAttempt)
                 THEN Answers(LaunchOutcomes, {"ok"}) ELSE {"no_restart"}) :
         /\ context' = IF o = "no_restart" THEN context ELSE Restart(o).context
         /\ page' = IF o = "no_restart" THEN landed ELSE Restart(o).page
         /\ IF o = "no_restart" THEN UNCHANGED tabs ELSE Launched(o)
         /\ \E lo \in (IF o = "no_restart" THEN {h.leftOpen}
                       ELSE CloseContext(h.leftOpen)) :
            h' = [h EXCEPT !.leftOpen = lo,
                           !.restarts = IF o = "no_restart" THEN @ ELSE @ + 1,
                           !.navRestarts = IF o = "no_restart" THEN @ ELSE @ + 1,
                           !.lastLogin = "none",
                           !.detectSinceNav = "unrun"]
         /\ IF o \in LaunchOutcomes \ {"ok"}
            THEN Raise(Plain("launch_failed")) /\ UNCHANGED navAttempt
            ELSE IF navAttempt < NAV_MAX_RETRIES
                 THEN /\ navAttempt' = navAttempt + 1
                      /\ pc' = "nav_try"
                      /\ UNCHANGED exc
                 ELSE /\ Raise(NavExhausted(page', headless))
                      /\ UNCHANGED navAttempt
    /\ UNCHANGED <<browser, headless, navigated, envVars, callVars, navRet,
                   errorState, exchangeVars, result>>
    /\ UNCHANGED overlapVars

\* _ensure_ready step 2, after navigate_to_chat returned:
\* dismiss_cookie_consent (best effort), then mark navigated.
AfterNav ==
    /\ pc = "after_nav"
    /\ navigated' = TRUE
    /\ pc' = "detect"
    /\ UNCHANGED <<browser, context, page, headless, tabs, envVars,
                   callVars, navVars, errorState, exchangeVars, exc, result, h>>
    /\ UNCHANGED overlapVars

\* _ensure_ready step 3: detect_and_dismiss_errors
Detect ==
    /\ pc = "detect"
    /\ \E p \in DetectProbesNow :
         /\ errorState' = DetectOutcome(p).state
         /\ h' = [h EXCEPT !.detectSinceNav = DetectOutcome(p).state,
                           !.dialogClicked = @ \/ DetectOutcome(p).clicked,
                           !.detectProbe = p]
    /\ pc' = "branch"
    /\ UNCHANGED <<sessionVars, envVars, callVars, navVars, exchangeVars, exc,
                   result>>
    /\ UNCHANGED overlapVars

BranchCheckingLoginOnExpiry ==
    /\ pc = "branch"
    /\ IF errorState = "cloudflare_challenge"
       THEN Raise(Plain("cloudflare_challenge"))
       ELSE pc' = "login_check" /\ UNCHANGED exc
    /\ h' = [h EXCEPT !.detectProbe = NoDetectProbe]
    /\ UNCHANGED <<sessionVars, envVars, callVars, navVars, errorState,
                   exchangeVars, result>>
    /\ UNCHANGED overlapVars

BranchRetryingChallenge ==
    /\ pc = "branch"
    /\ IF errorState \in {"cloudflare_challenge", "session_expired"}
       THEN /\ pc' = "al_switch_visible"
            /\ h' = [h EXCEPT !.escalated = TRUE,
                              !.detectProbe = NoDetectProbe]
       ELSE /\ pc' = "login_check"
            /\ h' = [h EXCEPT !.detectProbe = NoDetectProbe]
    /\ UNCHANGED <<sessionVars, envVars, callVars, navVars, errorState,
                   exchangeVars, exc, result>>
    /\ UNCHANGED overlapVars

\* _ensure_ready step 3: what follows the classification
Branch ==
    /\ pc = "branch"
    /\ IF errorState = "cloudflare_challenge"
       THEN Raise(Plain("cloudflare_challenge")) /\ UNCHANGED h
       ELSE IF errorState = "session_expired"
            THEN /\ pc' = "al_switch_visible"
                 /\ h' = [h EXCEPT !.escalated = TRUE,
                                   !.detectProbe = NoDetectProbe]
                 /\ UNCHANGED exc
            ELSE /\ pc' = "login_check"
                 /\ h' = [h EXCEPT !.detectProbe = NoDetectProbe]
                 /\ UNCHANGED exc
    /\ UNCHANGED <<sessionVars, envVars, callVars, navVars, errorState,
                   exchangeVars, result>>
    /\ UNCHANGED overlapVars

\* _ensure_ready step 4: the login check, escalating when it fails
LoginCheck ==
    /\ pc = "login_check"
    /\ \E p \in LoginProbesNow :
         LET r == LoggedInAnswer(PageUrl(page), p) IN
           /\ h' = [h EXCEPT !.lastLogin = IF r THEN "yes" ELSE "no",
                             !.escalated = ~r,
                             !.loginProbe = p]
           /\ pc' = IF r THEN "ensure_return" ELSE "al_switch_visible"
    /\ UNCHANGED <<sessionVars, envVars, callVars, navVars, errorState,
                   exchangeVars, exc, result>>
    /\ UNCHANGED overlapVars

\* ---------------------------------------------------- auto-login escalation

LoginModeUnchanged(hl) == hl

\* _auto_visible_login: the headless setting it switches to for the manual
\* login, whatever the setting was (switch_mode(headless=False)).
LoginMode(hl) == FALSE

\* _auto_visible_login: switch to visible mode, reset the navigated flag,
\* and start navigating.
AlSwitchVisible ==
    /\ pc = "al_switch_visible"
    /\ headless' = LoginMode(headless)
    /\ \E o \in Answers(LaunchOutcomes, {"ok"}) :
         /\ context' = Restart(o).context
         /\ page' = Restart(o).page
         /\ Launched(o)
         /\ \E lo \in CloseContext(h.leftOpen) :
              h' = [h EXCEPT !.leftOpen = lo,
                             !.restarts = @ + 1,
                           !.lastLogin = "none", !.detectSinceNav = "unrun",
                           !.loginProbe = NoLoginProbe,
                           !.navCalls = IF o = "ok" THEN @ + 1 ELSE @,
                           !.navRestarts = IF o = "ok" THEN 0 ELSE @]
         /\ IF o = "ok"
            THEN /\ navigated' = FALSE
                 /\ pc' = "nav_try"
                 /\ navRet' = "al_visible_navigated"
                 /\ navAttempt' = 1
                 /\ UNCHANGED exc
            ELSE /\ Raise(Plain("launch_failed"))
                 /\ UNCHANGED <<navigated, navVars>>
    /\ UNCHANGED <<browser, envVars, callVars, errorState, exchangeVars, result>>
    /\ UNCHANGED overlapVars

\* _auto_visible_login after the visible navigation: dismiss_cookie_consent,
\* then is_logged_in decides between skipping and starting the wait.
AlVisibleLogin ==
    /\ pc = "al_visible_navigated"
    /\ \E r \in IsLoggedIn :
         /\ h' = [h EXCEPT !.lastLogin = IF r THEN "yes" ELSE "no"]
         /\ pc' = IF r THEN "al_persist" ELSE "al_wait_login"
    /\ elapsed' = 0
    /\ UNCHANGED <<sessionVars, envVars, callVars, navVars, errorState,
                   previousCount, attempt, actual, exc, result>>
    /\ UNCHANGED overlapVars

LoginWaitRunningOneMore(e) == e <= LOGIN_TIMEOUT_MS

\* wait_for_login: the loop's condition
LoginWaitRunning(e) == e < LOGIN_TIMEOUT_MS

\* wait_for_login: one poll (is_logged_in, then the poll interval's wait; an
\* exception in either is absorbed and the interval is slept and counted all
\* the same), or the timeout when the polls are used up (then
\* _auto_visible_login raises and leaves the browser as it is).  The
\* loop's counter is gone when the loop is left.
AlWaitLogin ==
    /\ pc = "al_wait_login"
    /\ IF LoginWaitRunning(elapsed)
       THEN \E r \in IsLoggedIn :
              /\ h' = [h EXCEPT !.lastLogin = IF r THEN "yes" ELSE "no"]
              /\ IF r
                 THEN pc' = "al_persist" /\ elapsed' = 0
                 ELSE /\ pc' = "al_wait_login"
                      /\ elapsed' = elapsed + LOGIN_POLL_INTERVAL_MS
              /\ UNCHANGED exc
       ELSE /\ Raise(Plain("login_timeout"))
            /\ elapsed' = 0
            /\ UNCHANGED h
    /\ UNCHANGED <<sessionVars, envVars, callVars, navVars, errorState,
                   previousCount, attempt, actual, result>>
    /\ UNCHANGED overlapVars

\* _auto_visible_login after the login: wait for the cookies to persist (the
\* page may be gone: raises), switch back to headless, reset the navigated
\* flag and start navigating.
AlSwitchHeadless ==
    /\ pc = "al_persist"
    /\ IF context # "open"
       THEN /\ Raise(Plain("page_error"))
            /\ UNCHANGED <<sessionVars, navVars, h>>
       ELSE /\ headless' = TRUE
            /\ \E o \in Answers(LaunchOutcomes, {"ok"}) :
                 /\ context' = Restart(o).context
                 /\ page' = Restart(o).page
                 /\ Launched(o)
                 /\ \E lo \in CloseContext(h.leftOpen) :
                      h' = [h EXCEPT !.leftOpen = lo,
                                     !.restarts = @ + 1,
                                   !.lastLogin = "none",
                                   !.detectSinceNav = "unrun",
                                   !.navCalls = IF o = "ok" THEN @ + 1 ELSE @,
                                   !.navRestarts = IF o = "ok" THEN 0 ELSE @]
                 /\ IF o = "ok"
                    THEN /\ navigated' = FALSE
                         /\ pc' = "nav_try"
                         /\ navRet' = "al_headless_navigated"
                         /\ navAttempt' = 1
                         /\ UNCHANGED exc
                    ELSE /\ Raise(Plain("launch_failed"))
                         /\ UNCHANGED <<navigated, navVars>>
            /\ UNCHANGED browser
    /\ UNCHANGED <<envVars, callVars, errorState, exchangeVars, result>>
    /\ UNCHANGED overlapVars

AlVerifySkipped ==
    /\ pc = "al_headless_navigated"
    /\ navigated' = TRUE
    /\ pc' = "ensure_return"
    /\ UNCHANGED <<browser, context, page, headless, tabs, envVars,
                   callVars, navVars, errorState, exchangeVars, exc, result, h>>
    /\ UNCHANGED overlapVars

\* _auto_visible_login after the headless navigation: dismiss_cookie_consent,
\* mark navigated, and verify that the login holds in headless mode.
AlVerify ==
    /\ pc = "al_headless_navigated"
    /\ navigated' = TRUE
    /\ \E r \in IsLoggedIn :
         /\ h' = [h EXCEPT !.lastLogin = IF r THEN "yes" ELSE "no"]
         /\ IF r
            THEN pc' = "ensure_return" /\ UNCHANGED exc
            ELSE Raise(Plain("storage_not_persisted"))
    /\ UNCHANGED <<browser, context, page, headless, tabs, envVars,
                   callVars, navVars, errorState, exchangeVars, result>>
    /\ UNCHANGED overlapVars

\* _ensure_ready returns the browser; chatgpt_send calls send_message with
\* its message and file_path.  _ensure_ready's locals are gone and the
\* record of what it did ends here.
EnsureReturn ==
    /\ pc = "ensure_return"
    /\ pc' = "sm_count"
    /\ \E m \in Strings, f \in BOOLEAN :
         /\ message' = m
         /\ hasFile' = f
    /\ navRet' = "-"
    /\ navAttempt' = 0
    /\ errorState' = "none"
    /\ h' = [NoHistory EXCEPT !.startedDead = h.startedDead, !.exchange = TRUE]
    /\ UNCHANGED <<sessionVars, envVars, newChat, exchangeVars, exc, result>>
    /\ UNCHANGED overlapVars

\* --------------------------------------------------------- message exchange

SmPcs ==
    {"sm_count", "sm_upload", "sm_upload_poll", "sm_paste", "sm_enter",
     "sm_send_button", "sm_wait_new", "sm_wait_gen", "sm_turns",
     "sm_clipboard", "sm_js_clipboard", "sm_dom"}

Sentinel == "__SENTINEL__"

\* send_message's frames are left (a return or an exception): its arguments
\* and locals are gone.
LeaveExchange ==
    /\ message' = <<>>
    /\ hasFile' = FALSE
    /\ previousCount' = 0
    /\ attempt' = 0
    /\ actual' = <<>>
    /\ elapsed' = 0

\* send_message returns text to chatgpt_send, which returns it.
Return(text) ==
    /\ pc' = "done"
    /\ result' = [NoResult EXCEPT !.kind = "reply", !.text = text]
    /\ LeaveExchange

\* An exception leaves send_message for chatgpt_send's handler.
RaiseFromExchange(e) == Raise(e) /\ LeaveExchange

\* A page interaction of the exchange raises (an element is not found, the
\* page is gone); the page may have crashed.
SmPageError ==
    /\ pc \in SmPcs
    /\ ~envGood
    /\ \E crashed \in BOOLEAN :
         context' = IF crashed THEN "crashed" ELSE context
    /\ RaiseFromExchange(Plain("page_error"))
    /\ UNCHANGED <<browser, page, headless, navigated, tabs, envVars, newChat,
                   navVars, errorState, result, h>>
    /\ UNCHANGED overlapVars

\* send_message: the overall deadline passes while _send_message_impl is
\* suspended; the TimeoutError names the URL.
SmOverallTimeout ==
    /\ pc \in SmPcs
    /\ ~envGood
    /\ RaiseFromExchange([kind |-> "overall_timeout", url |-> PageUrl(page),
                          mode |-> "-", attempts |-> 0])
    /\ UNCHANGED <<sessionVars, envVars, newChat, navVars, errorState, result,
                   h>>
    /\ UNCHANGED overlapVars

AfterCountAlwaysUpload(f) == "sm_upload"

\* _send_message_impl: the step after the count, the upload when a file
\* is given
AfterCount(f) == IF f THEN "sm_upload" ELSE "sm_paste"

\* _send_message_impl: count the assistant messages present before the send.
SmCount ==
    /\ pc = "sm_count"
    /\ \E n \in 0..MaxMsgs : previousCount' = n
    /\ pc' = AfterCount(hasFile)
    /\ attempt' = 1
    /\ elapsed' = 0
    /\ UNCHANGED <<sessionVars, envVars, callVars, navVars, errorState, actual,
                   exc, result, h>>
    /\ UNCHANGED overlapVars

\* _upload_file: attach through the file input, then the initial settle of
\* _wait_for_upload_complete.
SmUpload ==
    /\ pc = "sm_upload"
    /\ pc' = "sm_upload_poll"
    /\ elapsed' = 0
    /\ UNCHANGED <<sessionVars, envVars, callVars, navVars, errorState,
                   previousCount, attempt, actual, exc, result, h>>
    /\ UNCHANGED overlapVars

\* _wait_for_upload_complete: one poll of the disabled submit control, or
\* the timeout, which logs a warning and goes on to send.
SmUploadPoll ==
    /\ pc = "sm_upload_poll"
    /\ IF elapsed < UploadPollCeiling
       THEN /\ \E disabled \in Answers(BOOLEAN, {FALSE}) :
                 IF disabled
                 THEN pc' = "sm_upload_poll" /\ elapsed' = elapsed + 1
                 ELSE pc' = "sm_paste" /\ elapsed' = 0
            /\ UNCHANGED h
       ELSE /\ pc' = "sm_paste"
            /\ elapsed' = 0
            /\ h' = [h EXCEPT !.uploadTimeout = TRUE]
    /\ UNCHANGED <<sessionVars, envVars, callVars, navVars, errorState,
                   previousCount, attempt, actual, exc, result>>
    /\ UNCHANGED overlapVars

\* What the prompt input holds after clear and paste: anything, or a faithful
\* rendering of the message.
PasteReadBack ==
    Answers(Strings, {s \in Strings : NormalizeText(s) = NormalizeText(message)})

PasteMayRetryOnceMore(a) == a <= MAX_PASTE_RETRIES

\* _clear_paste_and_verify: another attempt follows a failed one
PasteMayRetry(a) == a < MAX_PASTE_RETRIES

\* _clear_paste_and_verify: one clear-paste-verify attempt.
SmPaste ==
    /\ pc = "sm_paste"
    /\ \E readBack \in PasteReadBack :
         IF PasteAccepts(NormalizeText(readBack), NormalizeText(message))
         THEN /\ pc' = "sm_enter"
              /\ actual' = readBack
              /\ UNCHANGED <<callVars, previousCount, attempt, elapsed, exc>>
         ELSE IF PasteMayRetry(attempt)
              THEN /\ pc' = "sm_paste"
                   /\ actual' = readBack
                   /\ attempt' = attempt + 1
                   /\ UNCHANGED <<callVars, previousCount, elapsed, exc>>
              ELSE /\ RaiseFromExchange(
                          [kind |-> "paste_mismatch", url |-> "-",
                           mode |-> "-", attempts |-> MAX_PASTE_RETRIES])
                   /\ UNCHANGED newChat
    /\ UNCHANGED <<sessionVars, envVars, navVars, errorState, result, h>>
    /\ UNCHANGED overlapVars

\* _send_message_impl: press Enter, wait.
SmEnter ==
    /\ pc = "sm_enter"
    /\ h' = [h EXCEPT !.submits = @ + 1,
                      !.submitVerified =
                          @ /\ NormalizeText(actual) = NormalizeText(message)]
    /\ pc' = "sm_send_button"
    /\ UNCHANGED <<sessionVars, envVars, callVars, navVars, errorState,
                   exchangeVars, exc, result>>
    /\ UNCHANGED overlapVars

SendButtonStates == {"absent", "enabled", "disabled"}

\* _send_message_impl: the submit control is clicked when the query finds it
SendButtonClicked(btn) == btn # "absent"

\* _send_message_impl: the fallback click on the submit control, then the
\* call of _wait_and_copy_response, which is given the page and the
\* previous count only: the message, the file and the read-back are not
\* used past this point.
SmSendButton ==
    /\ pc = "sm_send_button"
    /\ \E btn \in Answers(SendButtonStates, {"absent"}) :
         h' = [h EXCEPT !.fallbackClick = btn,
                        !.submits = IF SendButtonClicked(btn) THEN @ + 1 ELSE @,
                        !.submitVerified =
                            @ /\ NormalizeText(actual) = NormalizeText(message)]
    /\ pc' = "sm_wait_new"
    /\ message' = <<>>
    /\ hasFile' = FALSE
    /\ actual' = <<>>
    /\ attempt' = 0
    /\ elapsed' = 0
    /\ UNCHANGED <<sessionVars, envVars, newChat, navVars, errorState,
                   previousCount, exc, result>>
    /\ UNCHANGED overlapVars

IsNewReplyWhenAny(count, previous) == count > 0

\* _wait_and_copy_response step 1: the test for a new assistant message
IsNewReply(count, previous) == count > previous

\* _wait_and_copy_response step 1: one poll of the assistant-message count,
\* or the empty result when the polls are used up.
SmWaitNew ==
    /\ pc = "sm_wait_new"
    /\ IF elapsed < NEW_MESSAGE_TIMEOUT_MS
       THEN \E count \in Answers(0..(MaxMsgs + 1), {previousCount + 1}) :
              IF IsNewReply(count, previousCount)
              THEN /\ pc' = "sm_wait_gen"
                   /\ elapsed' = 0
                   /\ h' = [h EXCEPT !.seenCount = count]
                   /\ UNCHANGED <<callVars, previousCount, attempt, actual,
                                  result>>
              ELSE /\ pc' = "sm_wait_new"
                   /\ elapsed' = elapsed + RESPONSE_POLL_INTERVAL_MS
                   /\ UNCHANGED <<callVars, previousCount, attempt, actual,
                                  result, h>>
       ELSE /\ Return("")
            /\ UNCHANGED <<newChat, h>>
    /\ UNCHANGED <<sessionVars, envVars, navVars, errorState, exc>>
    /\ UNCHANGED overlapVars

\* _wait_and_copy_response step 2: one poll of the stop control, or the reply
\* timeout when the polls are used up.
GenWaitRunningOneLess(e) == e + 1 < GenPollCeiling

\* _wait_and_copy_response step 2: the loop's condition
GenWaitRunning(e) == e < GenPollCeiling

\* _wait_and_copy_response step 2: one poll of the stop control.  When the
\* control is there, the interval is waited and counted, and if the loop's
\* condition then fails the reply timeout is raised at once.
SmWaitGen ==
    /\ pc = "sm_wait_gen"
    /\ \E stop \in Answers(BOOLEAN, {FALSE}) :
         IF ~stop
         THEN /\ pc' = "sm_turns"
              /\ elapsed' = 0
              /\ UNCHANGED <<callVars, previousCount, attempt, actual, exc>>
         ELSE IF GenWaitRunning(elapsed + 1)
              THEN /\ pc' = "sm_wait_gen"
                   /\ elapsed' = elapsed + 1
                   /\ UNCHANGED <<callVars, previousCount, attempt, actual,
                                  exc>>
              ELSE /\ RaiseFromExchange(Plain("reply_timeout"))
                   /\ UNCHANGED newChat
    /\ h' = [h EXCEPT !.genWait = TRUE, !.genPolls = @ + 1]
    /\ UNCHANGED <<sessionVars, envVars, navVars, errorState, result>>
    /\ UNCHANGED overlapVars

\* _wait_and_copy_response steps 3 and 4: settle, find the last turn and its
\* copy control; set the sentinel and click, or go to the DOM when either is
\* missing.
SmTurns ==
    /\ pc = "sm_turns"
    /\ \E found \in Answers(BOOLEAN, {TRUE}) :
         pc' = IF found THEN "sm_clipboard" ELSE "sm_dom"
    /\ h' = [h EXCEPT !.extraction = TRUE]
    /\ UNCHANGED <<sessionVars, envVars, callVars, navVars, errorState,
                   exchangeVars, exc, result>>
    /\ UNCHANGED overlapVars

\* What a tier yields when its read raises
Raised == "<raised>"

\* A tier that takes whatever it read
TierAcceptsAny(text) == TRUE

\* A tier's text is taken as the reply
TierAccepts(text) == text # "" /\ text # Sentinel

\* _wait_and_copy_response step 5: read the OS clipboard (_read_clipboard
\* gives "" when pyperclip raises).
SmClipboard ==
    /\ pc = "sm_clipboard"
    /\ \E text \in Answers({"", Sentinel, "markdown"}, {"markdown"}) :
         /\ IF TierAccepts(text)
            THEN Return(text) /\ UNCHANGED newChat
            ELSE /\ pc' = "sm_js_clipboard"
                 /\ UNCHANGED <<callVars, exchangeVars, result>>
         /\ h' = [h EXCEPT !.tiers = Append(@, <<"clipboard", text>>)]
    /\ UNCHANGED <<sessionVars, envVars, navVars, errorState, exc>>
    /\ UNCHANGED overlapVars

\* _wait_and_copy_response: the page's clipboard API; an exception falls
\* through.
SmJsClipboard ==
    /\ pc = "sm_js_clipboard"
    /\ \E text \in {Raised, "", Sentinel, "markdown_js"} :
         /\ IF text # Raised /\ TierAccepts(text)
            THEN Return(text) /\ UNCHANGED newChat
            ELSE /\ pc' = "sm_dom"
                 /\ UNCHANGED <<callVars, exchangeVars, result>>
         /\ h' = [h EXCEPT !.tiers = Append(@, <<"js_clipboard", text>>)]
    /\ UNCHANGED <<sessionVars, envVars, navVars, errorState, exc>>
    /\ UNCHANGED overlapVars

\* _dom_scrape_response: the last assistant message's text, "" without one.
SmDom ==
    /\ pc = "sm_dom"
    /\ \E text \in {"", "plain"} :
         /\ Return(text)
         /\ h' = [h EXCEPT !.tiers = Append(@, <<"dom", text>>)]
    /\ UNCHANGED <<sessionVars, envVars, newChat, navVars, errorState, exc>>
    /\ UNCHANGED overlapVars

\* ------------------------------------------------- failure path and return

Bool(b) == IF b THEN "True" ELSE "False"

\* _gather_diagnostics: the bundles it can assemble.  Every probe has its
\* fallback text; detect_and_dismiss_errors raises without a page.
GatherDiagnostics ==
    {[form |-> "bundle",
      url |-> PageUrl(page),
      mode |-> ModeStr(headless),
      alive |-> Bool(CheckContextAlive),
      loggedIn |-> Bool(li),
      errorState |-> es,
      screenshot |-> sh] :
        li \in IsLoggedIn,
        es \in (IF page = "none" THEN {"<check failed>"}
                ELSE DetectAndDismissErrors),
        sh \in (IF CheckContextAlive
                THEN Answers({"path", "<failed>"}, {"path"})
                ELSE {"<failed>"})}

CatchesRuntimeErrorOnly(e) == e.kind \notin {"reply_timeout", "overall_timeout"}

\* chatgpt_send: except Exception catches every failure the core raises
\* (RuntimeError, TimeoutError, the browser driver's errors).
Catches(e) == TRUE

\* chatgpt_send's handler: gather the diagnostics when a browser exists
\* ("" without one, a fixed text when gathering raises) and return the error
\* text with the diagnostics and the recommended actions.
SendExcept ==
    /\ pc = "send_except"
    /\ IF Catches(exc)
       THEN /\ pc' = "done"
            /\ \E d \in (IF browser
                         THEN GatherDiagnostics
                              \cup Answers({[NoDiag EXCEPT !.form = "failed"]}, {})
                         ELSE {[NoDiag EXCEPT !.form = "empty"]}) :
                 /\ result' = [kind |-> "error", text |-> "-", error |-> exc,
                               diag |-> d, hints |-> TRUE]
                 /\ h' = [NoHistory EXCEPT
                              !.exchange = h.exchange,
                              !.dialogClicked =
                                  d.errorState = "error_dialog_dismissed"]
       ELSE /\ pc' = "propagated"
            /\ UNCHANGED <<result, h>>
    /\ UNCHANGED <<sessionVars, envVars, callVars, navVars, errorState,
                   exchangeVars, exc>>
    /\ UNCHANGED overlapVars

\* The tool call's answer (or the propagated exception) reaches the caller.
Finish ==
    /\ pc \in {"done", "propagated"}
    /\ pc' = "idle"
    /\ prevFailed' = IF result.kind \in {"reply", "reset_ok"} THEN FALSE
                     ELSE IF pc = "propagated" \/ result.kind = "error" THEN TRUE
                     ELSE prevFailed
    /\ prevReset' = IF result.kind = "reset_ok" THEN TRUE
                    ELSE IF pc = "propagated" \/ result.kind \in {"reply", "error"}
                         THEN FALSE
                         ELSE prevReset
    /\ newChat' = TRUE
    /\ message' = <<>>
    /\ hasFile' = FALSE
    /\ navRet' = "-"
    /\ navAttempt' = 0
    /\ errorState' = "none"
    /\ previousCount' = 0
    /\ attempt' = 0
    /\ actual' = <<>>
    /\ elapsed' = 0
    /\ exc' = NoExc
    /\ result' = NoResult
    /\ h' = NoHistory
    /\ UNCHANGED <<sessionVars, envGood>>
    /\ UNCHANGED overlapVars

\* What chatgpt_reset leaves behind apart from the navigated flag
ResetSession ==
    /\ browser' = FALSE
    /\ context' = "none"
    /\ page' = "none"
    /\ headless' = FALSE
    /\ tabs' = 0
    /\ pc' = "done"
    /\ \E lo \in (IF browser THEN CloseContext(0) ELSE {0}) :
         h' = [NoHistory EXCEPT !.closed = browser, !.leftOpen = lo]
    /\ UNCHANGED <<envVars, callVars, navVars, errorState, exchangeVars, exc>>

ChatGPTResetKeepingNavigated ==
    /\ pc = "idle"
    /\ ResetSession
    /\ UNCHANGED navigated
    /\ result' = [NoResult EXCEPT !.kind = "reset_ok"]
    /\ UNCHANGED overlapVars

ChatGPTResetNeedingSession ==
    /\ pc = "idle"
    /\ ResetSession
    /\ navigated' = FALSE
    /\ result' = [NoResult EXCEPT !.kind = IF browser THEN "reset_ok" ELSE "failed"]
    /\ UNCHANGED overlapVars

\* chatgpt_reset: close the browser if there is one (errors swallowed), drop
\* it (the next ChatGPTBrowser starts from __init__'s values), clear the
\* navigated flag, answer that the browser was reset.
ChatGPTReset ==
    /\ pc = "idle"
    /\ browser' = FALSE
    /\ context' = "none"
    /\ page' = "none"
    /\ headless' = FALSE
    /\ tabs' = 0
    /\ navigated' = FALSE
    /\ pc' = "done"
    /\ result' = [NoResult EXCEPT !.kind = "reset_ok"]
    /\ \E lo \in (IF browser THEN CloseContext(0) ELSE {0}) :
         h' = [NoHistory EXCEPT !.closed = browser, !.leftOpen = lo]
    /\ UNCHANGED <<envVars, callVars, navVars, errorState, exchangeVars, exc>>
    /\ UNCHANGED overlapVars

\* chatgpt_status: what it can report.  The login check and the detection
\* run only on a live context.
StatusReports ==
    IF ~browser
    THEN {[NoDiag EXCEPT !.form = "not_started"]}
    ELSE {[form |-> "status",
           url |-> PageUrl(page),
           mode |-> ModeStr(headless),
           alive |-> Bool(CheckContextAlive),
           loggedIn |-> Bool(li),
           errorState |-> es,
           screenshot |-> "-"] :
             li \in (IF CheckContextAlive THEN IsLoggedIn ELSE {FALSE}),
             es \in (IF CheckContextAlive THEN DetectAndDismissErrors
                     ELSE {"none"})}
         \cup Answers({[NoDiag EXCEPT !.form = "failed"]}, {})

\* chatgpt_status
ChatGPTStatus ==
    /\ pc = "idle"
    /\ pc' = "done"
    /\ \E d \in StatusReports, p \in LoginProbesNow :
         LET checked == d.form = "status" /\ CheckContextAlive IN
           /\ checked => d.loggedIn = Bool(LoggedInAnswer(PageUrl(page), p))
           /\ result' = [NoResult EXCEPT !.kind = "status", !.diag = d]
           /\ h' = [NoHistory EXCEPT
                        !.dialogClicked =
                            (d.errorState = "error_dialog_dismissed"),
                        !.loginProbe = IF checked THEN p ELSE NoLoginProbe]
    /\ UNCHANGED <<sessionVars, envVars, callVars, navVars, errorState,
                   exchangeVars, exc>>
    /\ UNCHANGED overlapVars

\* chatgpt_diagnose
ChatGPTDiagnose ==
    /\ pc = "idle"
    /\ pc' = "done"
    /\ \E d \in (IF browser
                 THEN GatherDiagnostics
                      \cup Answers({[NoDiag EXCEPT !.form = "failed"]}, {})
                 ELSE {[NoDiag EXCEPT !.form = "not_started"]}) :
         /\ result' = [NoResult EXCEPT !.kind = "diagnose", !.diag = d]
         /\ h' = [NoHistory EXCEPT
                      !.dialogClicked = d.errorState = "error_dialog_dismissed"]
    /\ UNCHANGED <<sessionVars, envVars, callVars, navVars, errorState,
                   exchangeVars, exc>>
    /\ UNCHANGED overlapVars

\* chatgpt_screenshot
ChatGPTScreenshot ==
    /\ pc = "idle"
    /\ pc' = "done"
    /\ \E sh \in (IF ~browser THEN {"not_started"}
                  ELSE IF CheckContextAlive
                       THEN Answers({"path", "<failed>"}, {"path"})
                       ELSE {"<failed>"}) :
         result' = [NoResult EXCEPT !.kind = "screenshot", !.text = sh]
    /\ UNCHANGED <<sessionVars, envVars, callVars, navVars, errorState,
                   exchangeVars, exc, h>>
    /\ UNCHANGED overlapVars

\* --------------------------------------------------------------- environment

\* The browser process or its page dies (a crash, the user closing the
\* visible window): between calls or while the escalation waits.
Crash ==
    /\ pc \in {"idle", "al_wait_login", "al_persist"}
    /\ ~envGood
    /\ context = "open"
    /\ context' = "crashed"
    /\ UNCHANGED <<browser, page, headless, navigated, tabs, envVars, pc,
                   callVars, navVars, errorState, exchangeVars, exc, result, h>>
    /\ UNCHANGED overlapVars

\* From now on the environment behaves.
EnvRecovers ==
    /\ pc = "idle"
    /\ ~envGood
    /\ envGood' = TRUE
    /\ UNCHANGED <<sessionVars, prevFailed, prevReset, pc, callVars, navVars, errorState,
                   exchangeVars, exc, result, h>>
    /\ UNCHANGED overlapVars

Next ==
    \/ ChatGPTSend
    \/ GetBrowser
    \/ CheckAlive
    \/ NavDecide
    \/ NavAttemptOk
    \/ NavAttemptFail
    \/ AfterNav
    \/ Detect
    \/ Branch
    \/ LoginCheck
    \/ AlSwitchVisible
    \/ AlVisibleLogin
    \/ AlWaitLogin
    \/ AlSwitchHeadless
    \/ AlVerify
    \/ EnsureReturn
    \/ SmPageError
    \/ SmOverallTimeout
    \/ SmCount
    \/ SmUpload
    \/ SmUploadPoll
    \/ SmPaste
    \/ SmEnter
    \/ SmSendButton
    \/ SmWaitNew
    \/ SmWaitGen
    \/ SmTurns
    \/ SmClipboard
    \/ SmJsClipboard
    \/ SmDom
    \/ SendExcept
    \/ Finish
    \/ ChatGPTReset
    \/ ChatGPTStatus
    \/ ChatGPTDiagnose
    \/ ChatGPTScreenshot
    \/ Crash
    \/ EnvRecovers

Spec == Init /\ [][Next]_vars

\* The event loop resumes wait_for_login after each poll interval's sleep:
\* a poll that can be made is made.
FairSpec == Spec /\ WF_vars(AlWaitLogin)

\* A step of send_message: a page interaction returns, or raises.
ExchangeStep ==
    \/ SmCount
    \/ SmUpload
    \/ SmUploadPoll
    \/ SmPaste
    \/ SmEnter
    \/ SmSendButton
    \/ SmWaitNew
    \/ SmWaitGen
    \/ SmTurns
    \/ SmClipboard
    \/ SmJsClipboard
    \/ SmDom

\* Every page interaction of send_message returns: the exchange goes on.
ExchangeFairSpec == Spec /\ WF_vars(ExchangeStep)

\* ------------------------------------------------- overlapping tool calls
\*
\* chatgpt_send and chatgpt_reset as coroutines of one event loop: a step
\* runs from one suspension point (an await that really waits: Playwright
\* I/O, asyncio.sleep) to the next, and between two steps of a call the
\* other call may run.  Of chatgpt_send the part that creates, probes,
\* closes and launches contexts is followed (_get_browser and step 1 of
\* _ensure_ready); the rest of the call is one step.  What a suspended call
\* waits for (a context opening or closing) takes effect when it resumes.

\* ChatGPTBrowser.__init__
NewObject == [playwright |-> "none", context |-> 0]

\* The contexts that are open on the profile
OpenContexts == {c \in 1..Len(profile) : profile[c].open}

\* ChatGPTBrowser.is_context_alive on object b: a context and a page are
\* set and the page is not closed.
IsContextAlive(b) ==
    /\ objects[b].context # 0
    /\ profile[objects[b].context].open

\* _launch_context is called on b: it runs up to its first await, Playwright's
\* start when the object has none, else launch_persistent_context.
CallLaunch(t, b, ret) ==
    tasks' = [tasks EXCEPT ![t] =
                 [pc |-> IF objects[b].playwright = "none"
                         THEN "pw_wait" ELSE "launching",
                  b |-> b, c |-> 0, ret |-> ret]]

\* switch_mode, that is _restart, is called on b: it awaits the close of
\* the context the object names, or with none goes to its sleep.
CallRestart(t, b) ==
    tasks' = [tasks EXCEPT ![t] =
                 [pc |-> IF objects[b].context # 0
                         THEN "closing" ELSE "sleeping",
                  b |-> b, c |-> objects[b].context, ret |-> "restarted"]]

\* _ensure_ready step 1 on the object _get_browser returned: None has no
\* check_context_alive (the call fails); a context that is_context_alive
\* is probed with page.evaluate; a dead one is restarted.
CallCheckAlive(t, b) ==
    IF b = 0
    THEN tasks' = [tasks EXCEPT ![t] = NoTask]
    ELSE IF IsContextAlive(b)
         THEN tasks' = [tasks EXCEPT ![t] =
                           [pc |-> "probing", b |-> b, c |-> 0, ret |-> "-"]]
         ELSE CallRestart(t, b)

\* chatgpt_send begins: _get_browser makes and starts the object when
\* _browser is None, else returns it at once to _ensure_ready's step 1.
TaskSend(t) ==
    /\ tasks[t].pc = "idle"
    /\ IF current = 0
       THEN /\ Len(objects) < MaxObjects
            /\ objects' = Append(objects, NewObject)
            /\ current' = Len(objects) + 1
            /\ tasks' = [tasks EXCEPT ![t] =
                            [pc |-> "pw_wait", b |-> Len(objects) + 1,
                             c |-> 0, ret |-> "started"]]
       ELSE /\ CallCheckAlive(t, current)
            /\ UNCHANGED <<objects, current>>
    /\ UNCHANGED <<profile, callAtATimeVars>>

\* _launch_context: Playwright has started; it is stored and
\* launch_persistent_context is called.
TaskPlaywrightStarted(t) ==
    /\ tasks[t].pc = "pw_wait"
    /\ objects' = [objects EXCEPT ![tasks[t].b].playwright = "running"]
    /\ tasks' = [tasks EXCEPT ![t].pc = "launching"]
    /\ UNCHANGED <<current, profile, callAtATimeVars>>

\* _launch_context: launch_persistent_context returns a new context, which
\* the object stores with its page, and the stealth script is awaited; or
\* it raises (always on a Playwright that was stopped) and the call fails.
TaskContextLaunched(t) ==
    /\ tasks[t].pc = "launching"
    /\ \E ok \in BOOLEAN :
         IF ok /\ objects[tasks[t].b].playwright = "running"
         THEN /\ Len(profile) < MaxContexts
              /\ profile' = Append(profile, [by |-> tasks[t].b, open |-> TRUE])
              /\ objects' = [objects EXCEPT
                                ![tasks[t].b].context = Len(profile) + 1]
              /\ tasks' = [tasks EXCEPT ![t].pc = "stealth"]
         ELSE /\ tasks' = [tasks EXCEPT ![t] = NoTask]
              /\ UNCHANGED <<objects, profile>>
    /\ UNCHANGED <<current, callAtATimeVars>>

\* _launch_context returns: from start to _get_browser, which returns what
\* _browser names now, and on to step 1; from switch_mode to the rest of
\* _ensure_ready.
TaskLaunchReturns(t) ==
    /\ tasks[t].pc = "stealth"
    /\ IF tasks[t].ret = "started"
       THEN CallCheckAlive(t, current)
       ELSE tasks' = [tasks EXCEPT ![t] =
                         [pc |-> "rest", b |-> tasks[t].b, c |-> 0,
                          ret |-> "-"]]
    /\ UNCHANGED <<objects, current, profile, callAtATimeVars>>

\* check_context_alive: page.evaluate has answered, or raised on a page
\* that was closed meanwhile (then the context is restarted).
TaskProbeReturns(t) ==
    /\ tasks[t].pc = "probing"
    /\ IF IsContextAlive(tasks[t].b)
       THEN tasks' = [tasks EXCEPT ![t].pc = "rest"]
       ELSE CallRestart(t, tasks[t].b)
    /\ UNCHANGED <<objects, current, profile, callAtATimeVars>>

\* _restart: the context it closed is closed; the object forgets its
\* context and page, whatever they are by now, and the sleep begins.
TaskRestartClosed(t) ==
    /\ tasks[t].pc = "closing"
    /\ profile' = [profile EXCEPT ![tasks[t].c].open = FALSE]
    /\ objects' = [objects EXCEPT ![tasks[t].b].context = 0]
    /\ tasks' = [tasks EXCEPT ![t].pc = "sleeping", ![t].c = 0]
    /\ UNCHANGED <<current, callAtATimeVars>>

\* _restart: the sleep is over (with no context to close the object's
\* context and page were reset before it) and _launch_context is called.
TaskRestartSlept(t) ==
    /\ tasks[t].pc = "sleeping"
    /\ CallLaunch(t, tasks[t].b, "restarted")
    /\ UNCHANGED <<objects, current, profile, callAtATimeVars>>

\* The rest of chatgpt_send, on the object the call holds.
TaskRest(t) ==
    /\ tasks[t].pc = "rest"
    /\ tasks' = [tasks EXCEPT ![t] = NoTask]
    /\ UNCHANGED <<objects, current, profile, callAtATimeVars>>

\* chatgpt_reset: _browser is dropped and the flag cleared, after close()
\* when there is a browser.
ResetDone(t) ==
    /\ current' = 0
    /\ tasks' = [tasks EXCEPT ![t] = NoTask]

\* chatgpt_reset begins: with a browser, close() awaits the close of its
\* context if it has one, else the stop of its Playwright if it has one.
TaskReset(t) ==
    /\ tasks[t].pc = "idle"
    /\ IF current = 0
       THEN ResetDone(t)
       ELSE IF objects[current].context # 0
            THEN /\ tasks' = [tasks EXCEPT ![t] =
                                 [pc |-> "reset_closing", b |-> current,
                                  c |-> objects[current].context,
                                  ret |-> "-"]]
                 /\ UNCHANGED current
            ELSE IF objects[current].playwright # "none"
                 THEN /\ tasks' = [tasks EXCEPT ![t] =
                                      [pc |-> "reset_stopping", b |-> current,
                                       c |-> 0, ret |-> "-"]]
                      /\ UNCHANGED current
                 ELSE ResetDone(t)
    /\ UNCHANGED <<objects, profile, callAtATimeVars>>

\* ChatGPTBrowser.close: the context is closed; Playwright's stop is awaited
\* if the object has a Playwright.
TaskResetClosed(t) ==
    /\ tasks[t].pc = "reset_closing"
    /\ profile' = [profile EXCEPT ![tasks[t].c].open = FALSE]
    /\ IF objects[tasks[t].b].playwright # "none"
       THEN /\ tasks' = [tasks EXCEPT ![t].pc = "reset_stopping", ![t].c = 0]
            /\ UNCHANGED current
       ELSE ResetDone(t)
    /\ UNCHANGED <<objects, callAtATimeVars>>

\* ChatGPTBrowser.close: Playwright has stopped, and with it every context
\* it launched; chatgpt_reset drops _browser.
TaskResetStopped(t) ==
    /\ tasks[t].pc = "reset_stopping"
    /\ objects' = [objects EXCEPT ![tasks[t].b].playwright = "stopped"]
    /\ profile' = [c \in 1..Len(profile) |->
                      IF profile[c].by = tasks[t].b
                      THEN [profile[c] EXCEPT !.open = FALSE]
                      ELSE profile[c]]
    /\ ResetDone(t)
    /\ UNCHANGED callAtATimeVars

OverlapNext ==
    \E t \in Tasks :
      \/ TaskSend(t)
      \/ TaskPlaywrightStarted(t)
      \/ TaskContextLaunched(t)
      \/ TaskLaunchReturns(t)
      \/ TaskProbeReturns(t)
      \/ TaskRestartClosed(t)
      \/ TaskRestartSlept(t)
      \/ TaskRest(t)
      \/ TaskReset(t)
      \/ TaskResetClosed(t)
      \/ TaskResetStopped(t)

\* Tool calls that overlap, on a session that has not started.
OverlapSpec == Init /\ [][OverlapNext]_vars

\* ------------------------------------------------------------------- claims

NavReturnPcs == {"after_nav", "al_visible_navigated", "al_headless_navigated"}

\* C1: content integrity of send_message.  Every submit action (the Enter
\* press, the fallback click) happens while the input's read-back equals the
\* intended text after normalization, at most MAX_PASTE_RETRIES attempts are
\* made, and a content-mismatch failure is raised only after the last
\* attempt and with no submit action performed in the call.
C1_SubmitOnlyVerified ==
    /\ h.submitVerified
    /\ pc \in {"sm_enter", "sm_send_button"}
         => NormalizeText(actual) = NormalizeText(message)
    /\ pc = "sm_paste" => attempt \in 1..MAX_PASTE_RETRIES
    /\ (pc = "send_except" /\ exc.kind = "paste_mismatch")
         => h.submits = 0 /\ exc.attempts = MAX_PASTE_RETRIES

\* C1 happens: the message is submitted after the third attempt verified.
C1_Witness ==
    /\ pc = "sm_send_button"
    /\ attempt = MAX_PASTE_RETRIES
    /\ h.submits = 1
    /\ actual # message

\* C2: chatgpt_send never propagates a failure.  Whatever was raised, the
\* call returns normally with a result that holds the error, the diagnostics
\* (the bundle, or the fixed text when gathering them raised) and the
\* recommended actions.
C2_SendNeverPropagates ==
    /\ pc # "propagated"
    /\ (pc = "done" /\ exc.kind # "none")
         => /\ result.kind = "error"
            /\ result.error = exc
            /\ result.diag.form \in {"bundle", "failed"}
            /\ result.hints

\* C2 happens: the overall timeout, with the diagnostics failing too.
C2_Witness ==
    /\ pc = "done"
    /\ result.kind = "error"
    /\ result.error.kind = "overall_timeout"
    /\ result.diag.form = "failed"

\* C3: a challenge classification is fatal at once.  The step that follows
\* the classification raises the challenge error and changes nothing of the
\* session (no restart, navigation, mode switch) or of the call's record (no
\* login check or wait); when the error is raised no login check has been
\* made, the escalation has not been entered and the exchange has not started.
C3_ChallengeFailsImmediately ==
    /\ [][(pc = "branch" /\ errorState = "cloudflare_challenge")
            => /\ pc' = "send_except"
               /\ exc'.kind = "cloudflare_challenge"
               /\ UNCHANGED <<sessionVars, navVars, h>>]_vars
    /\ []((pc = "send_except" /\ exc.kind = "cloudflare_challenge")
            => /\ h.detectSinceNav = "cloudflare_challenge"
               /\ h.lastLogin = "none"
               /\ ~h.escalated
               /\ ~h.exchange)

\* C3 happens: the challenge error is on its way to the handler.
C3_Witness ==
    /\ pc = "send_except"
    /\ exc.kind = "cloudflare_challenge"
    /\ errorState = "cloudflare_challenge"

\* C4: crash self-healing.  With a behaving environment (the profile is
\* authenticated, navigation succeeds at once), a send whose liveness probe
\* failed raises nothing, and when _ensure_ready returns it has restarted
\* exactly once, in the unchanged mode, navigated once whatever new_chat was,
\* set the navigated flag and not escalated; the call returns a reply.
C4_CrashSelfHealing ==
    (envGood /\ h.startedDead)
      => /\ pc \notin {"send_except", "propagated"}
         /\ pc = "ensure_return"
              => /\ h.restarts = 1
                 /\ h.navCalls = 1
                 /\ h.navRestarts = 0
                 /\ ~h.escalated
                 /\ navigated
                 /\ headless = h.startHeadless
         /\ pc = "done" => result.kind = "reply" /\ result.text # ""

\* C4 happens: a continuing send on a crashed session is ready after one restart.
C4_Witness ==
    /\ pc = "ensure_return"
    /\ envGood
    /\ h.startedDead
    /\ ~newChat
    /\ h.restarts = 1

\* C5: no failure is sticky.  Once the environment behaves, a send that
\* follows a failed call raises nothing and returns a non-empty reply.
C5_NoStickyFailure ==
    (envGood /\ prevFailed)
      => /\ pc \notin {"send_except", "propagated"}
         /\ pc = "done"
              => /\ result.kind # "error"
                 /\ result.kind = "reply" => result.text # ""

\* C5 happens: a reply right after a failed call, the browser never reset.
C5_Witness ==
    /\ pc = "done"
    /\ envGood
    /\ prevFailed
    /\ result.kind = "reply"

\* C6: when _ensure_ready returns, the last is_logged_in check on the current
\* page, made after its last relaunch and navigation, answered true.
C6_ReturnsAuthenticated ==
    pc = "ensure_return" => h.lastLogin = "yes"

\* C6 happens: a return through the session-expired escalation.
C6_Witness ==
    /\ pc = "ensure_return"
    /\ h.escalated
    /\ errorState = "session_expired"

\* C7: when _ensure_ready returns, detect_and_dismiss_errors has been run on
\* the current page after its last relaunch and navigation and reported
\* neither a challenge nor an expired session.
C7_ReturnsFreeOfInterstitials ==
    pc = "ensure_return"
      => h.detectSinceNav \in
           {"none", "error_dialog_dismissed", "error_dialog_visible"}

\* C8: navigate_to_chat returns at its first successful attempt, having
\* restarted once after each failed attempt: attempt - 1 restarts, two when
\* the third attempt is the one that succeeds.
C8_NavigationRetry ==
    /\ pc \in NavReturnPcs
         => /\ navAttempt \in 1..NAV_MAX_RETRIES
            /\ h.navRestarts = navAttempt - 1
            /\ page = "chat"
    /\ pc = "nav_try" => h.navRestarts = navAttempt - 1

\* C8 happens: attempts 1 and 2 failed, attempt 3 succeeded.
C8_Witness ==
    /\ pc = "after_nav"
    /\ navAttempt = 3
    /\ h.navRestarts = 2

\* C9: navigate_to_chat makes at most NAV_MAX_RETRIES attempts; the fatal
\* navigation error is raised at the last one, carries the attempt count, the
\* page's URL and the mode, and only two restarts were made.
C9_NavigationExhaustion ==
    /\ pc = "nav_try" => navAttempt \in 1..NAV_MAX_RETRIES
    /\ (pc = "send_except" /\ exc.kind = "nav_exhausted")
         => /\ navAttempt = NAV_MAX_RETRIES
            /\ exc.attempts = 3
            /\ exc.url = PageUrl(page)
            /\ exc.mode = ModeStr(headless)
            /\ h.navRestarts = 2

\* C9 happens: the third attempt failed on the chat URL.
C9_Witness ==
    /\ pc = "send_except"
    /\ exc.kind = "nav_exhausted"
    /\ exc.url = "chat"
    /\ h.restarts = 2

\* C10: conversation cursor.  The stages after the new-message wait are
\* entered only with an observed count above the recorded one, and N + 1 is
\* taken as new; the wait returns the empty result, raising nothing, only
\* when all its polls are used up, and then neither the generation wait nor
\* the extraction has been entered.
C10_ConversationCursor ==
    /\ [](pc \in {"sm_wait_gen", "sm_turns", "sm_clipboard", "sm_js_clipboard",
                  "sm_dom"}
            => h.seenCount > previousCount)
    /\ [][(pc = "sm_wait_new" /\ envGood)
            => pc' = "sm_wait_gen" /\ h'.seenCount = previousCount + 1]_vars
    /\ [][(pc = "sm_wait_new" /\ pc' = "done")
            => /\ elapsed = NEW_MESSAGE_TIMEOUT_MS
               /\ result'.kind = "reply"
               /\ result'.text = ""
               /\ exc' = NoExc
               /\ ~h'.genWait
               /\ ~h'.extraction
               /\ h'.tiers = <<>>]_vars
    /\ []((pc = "done" /\ result.kind = "reply" /\ ~h.genWait)
            => result.text = "" /\ h.seenCount = 0)

\* C10 happens: the count stayed at N = 1 and the empty result was returned.
C10_Witness ==
    /\ pc = "done"
    /\ result.kind = "reply"
    /\ result.text = ""
    /\ ~h.genWait
    /\ h.submits > 0

\* C11: reply-extraction tiering.  Once the copy control has been clicked the
\* tiers run in the order OS clipboard, page clipboard API, DOM text; a tier
\* whose read raised or gave the empty text or the sentinel is followed by the
\* next one, a tier with a usable text is the last one run, and the reply
\* returned is the text of the last tier run.
C11_ExtractionTiering ==
    LET order == <<"clipboard", "js_clipboard", "dom">>
        usable(t) == t[2] \notin {Raised, "", Sentinel}
        n == Len(h.tiers)
    IN  (n > 0 /\ h.tiers[1][1] = "clipboard")
          => /\ n <= 3
             /\ \A i \in 1..n : h.tiers[i][1] = order[i]
             /\ \A i \in 1..n : usable(h.tiers[i]) => i = n
             /\ pc \in {"sm_js_clipboard", "sm_dom"} => ~usable(h.tiers[n])
             /\ pc = "sm_js_clipboard" => n = 1
             /\ pc = "sm_dom" => n = 2
             /\ (pc = "done" /\ result.kind = "reply")
                  => /\ result.text = h.tiers[n][2]
                     /\ n < 3 => usable(h.tiers[n])

\* C11 happens: the sentinel stayed on the OS clipboard, the page's clipboard
\* API raised, and the DOM text was returned.
C11_Witness ==
    /\ pc = "done"
    /\ result.text = "plain"
    /\ h.tiers = <<(<<"clipboard", Sentinel>>), (<<"js_clipboard", Raised>>),
                   (<<"dom", "plain">>)>>

\* C12: idempotence of chatgpt_reset.  Every reset answers that the browser
\* was reset and leaves the same session state (no browser, no context, no
\* page, the navigated flag false), and a reset without a browser closes
\* nothing and changes nothing: a second reset in a row leaves what the
\* first one left.
C12_ResetIdempotent ==
    [][(/\ pc = "idle"
        /\ pc' = "done"
        /\ result'.kind \notin {"status", "diagnose", "screenshot"})
         => /\ result'.kind = "reset_ok"
            /\ exc' = NoExc
            /\ sessionVars' = <<FALSE, "none", "none", FALSE, FALSE, 0>>
            /\ ~browser => /\ UNCHANGED sessionVars
                           /\ ~h'.closed
                           /\ h'.leftOpen = 0]_vars

\* C12 happens: the second of two resets with no send between them has
\* answered.
C12_Witness ==
    /\ pc = "done"
    /\ prevReset
    /\ result.kind = "reset_ok"
    /\ ~h.closed
    /\ sessionVars = <<FALSE, "none", "none", FALSE, FALSE, 0>>

\* C13: chatgpt_reset discards the session.  After a reset, whether close()
\* raised or not, there is no browser and the navigated flag is false; there
\* is never a navigated flag without a browser; a send that finds no browser
\* launches one and then navigates whatever new_chat is.
C13_ResetDiscardsSession ==
    /\ [][(/\ pc = "idle"
           /\ pc' = "done"
           /\ result'.kind \notin {"status", "diagnose", "screenshot"})
            => ~browser' /\ ~navigated' /\ context' = "none"]_vars
    /\ [](~browser => ~navigated)
    /\ []((prevReset /\ pc \in {"idle", "get_browser"}) => ~browser)
    /\ []((prevReset /\ pc \in {"check_alive", "nav_decide"}) => h.launched)
    /\ [][(pc = "get_browser" /\ ~browser)
            => browser' /\ h'.launched /\ ~navigated']_vars
    /\ [][(pc = "nav_decide" /\ h.launched)
            => pc' = "nav_try" /\ h'.navCalls = 1]_vars
    /\ []((h.launched /\ pc \in {"detect", "branch", "login_check"})
            => h.navCalls >= 1 /\ page = "chat")

\* C13 happens: the first send after a reset, a continuing one (new_chat
\* false), has launched the browser and is navigating.
C13_Witness ==
    /\ pc = "nav_try"
    /\ prevReset
    /\ h.launched
    /\ ~newChat
    /\ h.navCalls = 1

\* C14: at most one browser context is open: the session's context counted
\* with the contexts that this call's close() left running when it relaunched.
C14_OneContextOpen ==
    (IF context = "open" THEN 1 ELSE 0) + h.leftOpen <= 1

\* C15: single page handle.  Every launch or relaunch that succeeds (the
\* first start, a restart, a mode switch, a navigation retry's restart)
\* leaves the context open with exactly one tab, the adopted page, however
\* many tabs the profile restored.
C15_SinglePageHandle ==
    /\ [][(/\ h'.restarts > h.restarts \/ (h'.launched /\ ~h.launched)
           /\ pc' # "send_except")
            => context' = "open" /\ page' = "blank" /\ tabs' = 1]_vars
    /\ [](\A k \in 0..MaxTabs : LaunchTabs("ok", k) = {1})

\* C15 happens: a session found dead was relaunched and has one tab.
C15_Witness ==
    /\ pc = "nav_decide"
    /\ h.startedDead
    /\ h.restarts = 1
    /\ tabs = 1
    /\ page = "blank"

\* C16: manual-login timeout.  When wait_for_login has used up its polls the
\* escalation raises the login-timeout error and touches nothing of the
\* session while doing so: the browser it switched to visible mode is still
\* there and still visible when the error is raised, and still so when
\* chatgpt_send has answered.
C16_LoginTimeoutLeavesVisible ==
    /\ [][(pc = "al_wait_login" /\ pc' # "al_wait_login" /\ pc' # "al_persist")
            => /\ pc' = "send_except"
               /\ exc'.kind = "login_timeout"
               /\ elapsed = LOGIN_TIMEOUT_MS
               /\ h.lastLogin = "no"
               /\ UNCHANGED <<sessionVars, h>>]_vars
    /\ []((pc = "send_except" /\ exc.kind = "login_timeout")
            => browser /\ ~headless /\ context # "none" /\ page = "chat")
    /\ []((pc = "done" /\ result.kind = "error"
             /\ result.error.kind = "login_timeout")
            => browser /\ ~headless /\ context # "none" /\ page = "chat")

\* C16 happens: the login wait timed out and chatgpt_send has answered with
\* the error, its diagnostics showing the open browser in visible mode.
C16_Witness ==
    /\ pc = "done"
    /\ result.kind = "error"
    /\ result.error.kind = "login_timeout"
    /\ context = "open"
    /\ result.diag.mode = "visible"

\* C17: cookie non-persistence.  When the verification after the manual
\* login finds the login not holding, the storage-not-persisted error is
\* raised with the browser left visible.
C17_StorageFailureLeavesVisible ==
    (pc = "send_except" /\ exc.kind = "storage_not_persisted")
      => browser /\ ~headless

\* C18: the escalation returns to the prior mode.  When _ensure_ready
\* returns through the escalation, the mode is the one the session had when
\* the escalation began.
C18_EscalationRestoresMode ==
    (pc = "ensure_return" /\ h.escalated) => headless = h.startHeadless

\* C19: every deadline that runs out raises a timeout failure that carries
\* the last known URL and the mode: the navigation attempts, the login wait,
\* the upload wait, the reply generation, the overall send.
C19_DeadlinesCarryUrlAndMode ==
    /\ (pc = "send_except"
          /\ exc.kind \in {"nav_exhausted", "login_timeout", "reply_timeout",
                           "overall_timeout"})
         => exc.url # "-" /\ exc.mode # "-"
    /\ h.uploadTimeout => pc = "send_except"

\* C20: an upload timeout is fatal to the call.  Once the upload wait has
\* run out, the exchange is failing with an error: the message is neither
\* pasted nor submitted.
C20_UploadTimeoutFatal ==
    h.uploadTimeout
      => /\ pc = "send_except"
         /\ h.submits = 0

\* C21: the diagnostic snapshot is a read-only projection.  When
\* chatgpt_status, chatgpt_diagnose or the failure path of chatgpt_send has
\* assembled it, no control of the page has been clicked.
C21_SnapshotReadOnly ==
    (pc = "done" /\ result.kind \in {"status", "diagnose", "error"})
      => ~h.dialogClicked

C30_FallbackOnlyWhenEnabled ==
    /\ h.fallbackClick \in {"absent", "disabled"} => h.submits <= 1
    /\ h.fallbackClick = "enabled" => h.submits = 2

\* C23: conversation continuation.  _ensure_ready navigates exactly when
\* new_chat is true or the navigated flag is false, and otherwise goes on to
\* the detection with the session untouched; a send with new_chat false on
\* a live, navigated, logged-in session without an error indicator reaches
\* the exchange with no navigation, no restart and the mode unchanged, on
\* the page it found.
C23_ContinuationKeepsConversation ==
    /\ [][pc = "nav_decide"
            => IF newChat \/ ~navigated
               THEN pc' = "nav_try" /\ h'.navCalls = h.navCalls + 1
               ELSE pc' = "detect" /\ UNCHANGED <<sessionVars, h>>]_vars
    /\ []((pc = "ensure_return" /\ ~newChat /\ ~h.launched /\ ~h.startedDead
             /\ ~h.escalated /\ h.navCalls = 0)
            => /\ h.restarts = 0
               /\ headless = h.startHeadless
               /\ navigated
               /\ page = "chat"
               /\ h.detectSinceNav \in {"none", "error_dialog_dismissed",
                                        "error_dialog_visible"}
               /\ h.lastLogin = "yes")
    /\ []((pc \in {"detect", "branch", "login_check", "ensure_return"}
             /\ h.navCalls = 0)
            => ~newChat /\ navigated /\ ~h.launched)

\* C23 happens: a continuing send is ready for the exchange without having
\* navigated or restarted.
C23_Witness ==
    /\ pc = "ensure_return"
    /\ ~newChat
    /\ h.navCalls = 0
    /\ h.restarts = 0
    /\ envGood

\* C24: a session-expired classification goes straight into the escalation
\* (no login check before the switch to visible mode), and _ensure_ready
\* returns right after the escalation: once the escalation is entered
\* _ensure_ready makes no detection and no login check of its own.
C24_ExpiryShortCircuits ==
    /\ [][(pc = "branch" /\ errorState = "session_expired")
            => /\ pc' = "al_switch_visible"
               /\ h'.escalated
               /\ h'.lastLogin = "none"
               /\ UNCHANGED sessionVars]_vars
    /\ [](h.escalated
            => pc \notin {"nav_decide", "after_nav", "detect", "branch",
                          "login_check"})
    /\ [][(pc = "al_headless_navigated" /\ pc' # "send_except")
            => pc' = "ensure_return" /\ h'.lastLogin = "yes"]_vars
    /\ []((pc = "ensure_return" /\ errorState = "session_expired")
            => h.escalated /\ h.detectSinceNav = "unrun")

\* C24 happens: the session-expired classification has just led into the
\* escalation, with no login check made.
C24_Witness ==
    /\ pc = "al_switch_visible"
    /\ errorState = "session_expired"
    /\ h.escalated
    /\ h.lastLogin = "none"

\* C25: is_logged_in is fail-closed and checks the negative indicator
\* first.  Whenever _ensure_ready's login check or chatgpt_status has just
\* called it, the answer is false if the page's URL is off the target
\* domain, if the login/signup control is visible (whatever the post-login
\* query would find), and if a query raised; it is true only if the URL is
\* on the domain, no negative indicator is visible and the post-login
\* element was found.
C25_LoggedInFailClosed ==
    /\ (pc \in {"ensure_return", "al_switch_visible"}
          /\ h.loginProbe # NoLoginProbe)
         => /\ PageUrl(page) # "chat" => h.lastLogin = "no"
            /\ h.loginProbe.neg = "visible" => h.lastLogin = "no"
            /\ "raises" \in {h.loginProbe.neg, h.loginProbe.pos}
                 => h.lastLogin = "no"
            /\ h.lastLogin = "yes"
                 => /\ PageUrl(page) = "chat"
                    /\ h.loginProbe.neg \in {"absent", "hidden"}
                    /\ h.loginProbe.pos = "found"
            /\ h.lastLogin \in {"yes", "no"}
            /\ pc = "ensure_return" <=> h.lastLogin = "yes"
    /\ (pc = "done" /\ result.kind = "status" /\ h.loginProbe # NoLoginProbe)
         => /\ result.diag.url # "chat" => result.diag.loggedIn = Bool(FALSE)
            /\ h.loginProbe.neg = "visible"
                 => result.diag.loggedIn = Bool(FALSE)
            /\ "raises" \in {h.loginProbe.neg, h.loginProbe.pos}
                 => result.diag.loggedIn = Bool(FALSE)
            /\ result.diag.loggedIn = Bool(TRUE)
                 => /\ result.diag.url = "chat"
                    /\ h.loginProbe.neg \in {"absent", "hidden"}
                    /\ h.loginProbe.pos = "found"

\* C25 happens: the login check answered false on a page that shows the
\* login/signup control and the post-login element at once.
C25_Witness ==
    /\ pc = "al_switch_visible"
    /\ h.loginProbe = [neg |-> "visible", pos |-> "found"]
    /\ h.lastLogin = "no"
    /\ page = "chat"

\* C26: detect_and_dismiss_errors returns one classification or none, by
\* priority challenge > session-expired > error dialog.  Right after
\* _ensure_ready's detection: a visible challenge is reported whatever else
\* is visible; session-expired is reported exactly when it is visible and
\* no challenge is; the dialog's element was clicked only when neither was
\* reported and the element is a button, and "dismissed" is reported
\* exactly after such a click that went through; an element that is not a
\* button is reported as visible with no click.
C26_DetectionPriority ==
    pc = "branch"
      => /\ h.detectProbe \in
              (IF context = "open" THEN DetectProbes
               ELSE {[cf |-> "raises", expired |-> "raises",
                      dialog |-> "raises"]})
         /\ errorState \in ErrorStates
         /\ h.detectProbe.cf = "visible"
              => errorState = "cloudflare_challenge"
         /\ errorState = "cloudflare_challenge"
              => h.detectProbe.cf = "visible"
         /\ errorState = "session_expired"
              <=> (h.detectProbe.cf # "visible"
                     /\ h.detectProbe.expired = "visible")
         /\ h.dialogClicked
              => /\ errorState \in {"error_dialog_dismissed", "none"}
                 /\ h.detectProbe.cf # "visible"
                 /\ h.detectProbe.expired # "visible"
                 /\ h.detectProbe.dialog \in {"button", "button_click_raises"}
         /\ errorState = "error_dialog_dismissed"
              <=> (h.dialogClicked /\ h.detectProbe.dialog = "button")
         /\ errorState = "error_dialog_visible"
              <=> (/\ h.detectProbe.cf # "visible"
                   /\ h.detectProbe.expired # "visible"
                   /\ h.detectProbe.dialog = "other")
         /\ errorState = "error_dialog_visible" => ~h.dialogClicked

\* C26 happens: a challenge, the expiry indicator and a dialog button were
\* all visible, and the challenge was reported without a click.
C26_Witness ==
    /\ pc = "branch"
    /\ h.detectProbe = [cf |-> "visible", expired |-> "visible",
                        dialog |-> "button"]
    /\ errorState = "cloudflare_challenge"
    /\ ~h.dialogClicked

\* C27: wait_for_login always terminates.  Its counter goes up by the poll
\* interval with every unsuccessful poll and the loop runs only below the
\* timeout, 150 intervals; it is left with true at the first poll at which
\* is_logged_in is true and with false (the login-timeout error) after 150
\* unsuccessful polls; on a page that is gone every poll raises, is
\* absorbed, and counts like any other; and once entered the wait ends.
C27_LoginWaitTerminates ==
    /\ [](LOGIN_TIMEOUT_MS = 150 * LOGIN_POLL_INTERVAL_MS)
    /\ [](pc = "al_wait_login"
            => /\ elapsed \in 0..LOGIN_TIMEOUT_MS
               /\ elapsed % LOGIN_POLL_INTERVAL_MS = 0
               /\ h.lastLogin = "no")
    /\ [][(pc = "al_wait_login" /\ (pc' # pc \/ elapsed' # elapsed))
            => IF elapsed < LOGIN_TIMEOUT_MS
               THEN \/ pc' = "al_persist" /\ h'.lastLogin = "yes"
                    \/ /\ pc' = "al_wait_login"
                       /\ h'.lastLogin = "no"
                       /\ elapsed' = elapsed + LOGIN_POLL_INTERVAL_MS
               ELSE pc' = "send_except" /\ exc'.kind = "login_timeout"]_vars
    /\ [][(pc = "al_wait_login" /\ context # "open" /\ pc' # pc)
            => /\ elapsed = LOGIN_TIMEOUT_MS
               /\ pc' = "send_except"
               /\ exc'.kind = "login_timeout"]_vars
    /\ (pc = "al_wait_login") ~> (pc # "al_wait_login")

\* C27 happens: the wait ran to its timeout on a page that went away while
\* it was polling.
C27_Witness ==
    /\ pc = "send_except"
    /\ exc.kind = "login_timeout"
    /\ context = "crashed"

\* C28: the generation wait, entered after a new assistant message was
\* seen, raises the reply timeout exactly when the stop control was there
\* at every poll up to the deadline, GenPollCeiling polls (for the 2400 of
\* RESPONSE_TIMEOUT_MS / RESPONSE_POLL_INTERVAL_MS); a poll that finds no
\* control, the last one included, goes on to the extraction with no
\* timeout raised.
C28_GenerationWait ==
    /\ [](pc = "sm_wait_gen"
            => /\ h.seenCount > previousCount
               /\ elapsed = h.genPolls
               /\ elapsed < GenPollCeiling)
    /\ []((pc = "send_except" /\ exc.kind = "reply_timeout")
            => h.genPolls = GenPollCeiling)
    /\ [][(pc = "sm_wait_gen" /\ pc' = "send_except"
             /\ exc'.kind # "reply_timeout")
            => UNCHANGED h]_vars
    /\ [][(pc = "sm_wait_gen" /\ h'.genPolls = GenPollCeiling)
            => \/ pc' = "sm_turns"
               \/ pc' = "send_except" /\ exc'.kind = "reply_timeout"]_vars
    /\ [][(pc = "sm_wait_gen" /\ h'.genPolls \in 1..(GenPollCeiling - 1)
             /\ h' # h)
            => pc' \in {"sm_wait_gen", "sm_turns"}]_vars
    /\ [](pc \in {"sm_turns", "sm_clipboard", "sm_js_clipboard", "sm_dom"}
            => h.genPolls \in 1..GenPollCeiling)

\* C28 happens: the control was there at every poll but the last, and the
\* exchange has gone on to the extraction.
C28_Witness ==
    /\ pc = "sm_turns"
    /\ h.genPolls = GenPollCeiling

\* The stage of one exchange that a step of send_message belongs to:
\* 0 idle, 1 uploading, 2 typing, 3 submitted, 4 waiting-for-new-message,
\* 5 generating, 6 settled, 7 extracting, 8 done, 9 failed.
ExchangeStage(p) ==
    CASE p = "sm_count" -> 0
      [] p \in {"sm_upload", "sm_upload_poll"} -> 1
      [] p = "sm_paste" -> 2
      [] p \in {"sm_enter", "sm_send_button"} -> 3
      [] p = "sm_wait_new" -> 4
      [] p = "sm_wait_gen" -> 5
      [] p = "sm_turns" -> 6
      [] p \in {"sm_clipboard", "sm_js_clipboard", "sm_dom"} -> 7
      [] p = "done" -> 8
      [] OTHER -> 9

\* C29 as stated: every step of an exchange stays in its stage, goes to
\* the next one (past uploading exactly when no file is given), or fails;
\* the cursor is recorded before upload, typing and submission; and the
\* extraction starts only after the count exceeded the cursor and the
\* generation control was then seen absent.
C29_StagesInOrder ==
    /\ [][(pc \in SmPcs)
            => (\/ ExchangeStage(pc') = ExchangeStage(pc)
               \/ /\ ExchangeStage(pc') = ExchangeStage(pc) + 1
                  /\ pc = "sm_count" => hasFile
               \/ /\ pc = "sm_count" /\ ~hasFile
                  /\ ExchangeStage(pc') = 2
               \/ pc' = "send_except")]_vars
    /\ [](pc \in {"sm_upload", "sm_upload_poll"} => hasFile)
    /\ [](pc = "sm_count"
            => h.submits = 0 /\ ~h.uploadTimeout /\ actual = <<>>)
    /\ [][(pc \in SmPcs \ {"sm_count"} /\ pc' \in SmPcs)
            => previousCount' = previousCount]_vars
    /\ [](pc \in {"sm_turns", "sm_clipboard", "sm_js_clipboard", "sm_dom"}
            => h.seenCount > previousCount /\ h.genWait)
    /\ []((pc = "done" /\ result.kind = "reply") => h.extraction)

\* C29, amended: as above, except that the new-message wait, when its
\* polls are used up with no new assistant message seen, goes straight to
\* done with the empty result, no extraction made.
C29_StagesInOrderOrEmpty ==
    /\ [][(pc \in SmPcs)
            => (\/ ExchangeStage(pc') = ExchangeStage(pc)
               \/ /\ ExchangeStage(pc') = ExchangeStage(pc) + 1
                  /\ pc = "sm_count" => hasFile
               \/ /\ pc = "sm_count" /\ ~hasFile
                  /\ ExchangeStage(pc') = 2
               \/ pc' = "send_except"
               \/ /\ pc = "sm_wait_new" /\ pc' = "done"
                  /\ elapsed = NEW_MESSAGE_TIMEOUT_MS
                  /\ h.seenCount = 0
                  /\ result'.kind = "reply" /\ result'.text = "")]_vars
    /\ [](pc \in {"sm_upload", "sm_upload_poll"} => hasFile)
    /\ [](pc = "sm_count"
            => h.submits = 0 /\ ~h.uploadTimeout /\ actual = <<>>)
    /\ [][(pc \in SmPcs \ {"sm_count"} /\ pc' \in SmPcs)
            => previousCount' = previousCount]_vars
    /\ [](pc \in {"sm_turns", "sm_clipboard", "sm_js_clipboard", "sm_dom"}
            => h.seenCount > previousCount /\ h.genWait)
    /\ []((pc = "done" /\ result.kind = "reply")
            => \/ h.extraction
               \/ ~h.genWait /\ h.seenCount = 0 /\ result.text = "")

\* C29 happens: an exchange went through every stage, its reply seen
\* after the cursor and its generation waited for, and has answered from
\* the extraction.
C29_Witness ==
    /\ pc = "done"
    /\ result.kind = "reply"
    /\ result.text # ""
    /\ h.extraction
    /\ h.genPolls > 1
    /\ h.seenCount > 0
    /\ h.submits > 0

\* C31: the navigated flag.  Whenever the flag is set and the context is
\* alive, the page has completed a navigate_to_chat since the context's last
\* relaunch (it is the chat page, not the blank page of a fresh launch); so
\* a send that skips the navigation, new_chat being false, runs its
\* detection on the chat page.
C31_NavigatedMeansLoaded ==
    /\ (navigated /\ CheckContextAlive) => page = "chat"
    /\ (pc = "detect" /\ h.navCalls = 0 /\ CheckContextAlive) => page = "chat"

\* C32: one session under overlapping calls.  However a chatgpt_send
\* interleaves with another chatgpt_send or with a chatgpt_reset, at most
\* one context is open on the profile, and when no call is running every
\* open context is the one the object named by _browser refers to.
C32_SingleSessionOverlapping ==
    /\ Cardinality(OpenContexts) <= 1
    /\ (\A t \in Tasks : tasks[t].pc = "idle")
         => \A c \in OpenContexts :
              current # 0 /\ objects[current].context = c

\* C33: send_message terminates.  With every page interaction returning,
\* a call that has entered the exchange reaches done or failed; every loop
\* is bounded (MAX_PASTE_RETRIES = 3 paste attempts, UploadPollCeiling
\* upload polls for the 120 of the code, 30 new-message polls,
\* GenPollCeiling generation polls for the 2400), a step that stays at its
\* place counts its loop's counter up, and a step never goes back to an
\* earlier stage.
C33_SendMessageTerminates ==
    /\ (pc \in SmPcs) ~> (pc \in {"done", "send_except"})
    /\ [](MAX_PASTE_RETRIES = 3
            /\ NEW_MESSAGE_TIMEOUT_MS = 30 * RESPONSE_POLL_INTERVAL_MS)
    /\ [](pc = "sm_paste" => attempt \in 1..MAX_PASTE_RETRIES)
    /\ [](pc = "sm_upload_poll" => elapsed \in 0..UploadPollCeiling)
    /\ [](pc = "sm_wait_new"
            => /\ elapsed \in 0..NEW_MESSAGE_TIMEOUT_MS
               /\ elapsed % RESPONSE_POLL_INTERVAL_MS = 0)
    /\ [](pc = "sm_wait_gen" => elapsed \in 0..(GenPollCeiling - 1))
    /\ [][(pc \in SmPcs /\ pc' = pc)
            => \/ pc = "sm_paste" /\ attempt' = attempt + 1
               \/ /\ pc \in {"sm_upload_poll", "sm_wait_new", "sm_wait_gen"}
                  /\ elapsed' > elapsed]_vars
    /\ [][(pc \in SmPcs /\ pc' # pc)
            => \/ pc' \in {"done", "send_except"}
               \/ /\ pc' \in SmPcs
                  /\ ExchangeStage(pc') >= ExchangeStage(pc)]_vars

\* C33 happens: a call has ended after using every paste attempt, the read-back
\* never matching.
C33_Witness ==
    /\ pc = "send_except"
    /\ exc.kind = "paste_mismatch"
    /\ exc.attempts = MAX_PASTE_RETRIES

====
